---- MODULE Spec2Model ----
(***************************************************************************)
(* Construction schedule optimizer: the genetic-algorithm scheduler        *)
(* (src/scheduler.py), the dependency-ordered ResourceOptimizer            *)
(* (src/resource_optimizer.py) and the input validation (src/utils.py).   *)
(*                                                                         *)
(* Numbers that the program holds as floats are held here as integers in   *)
(* tenths (the mode factors 0.7 .. 1.5 are 7 .. 15), so cost, carbon and   *)
(* the penalised makespan are exact; float rounding is not modelled.       *)
(***************************************************************************)
EXTENDS Integers, Sequences, FiniteSets, TLC

(* ---------------------------------------------------------------- bounds *)
MaxPop == 2
MaxGen == 2
NumSeeds == 4

(* ------------------------------------------------------ program constants *)
CXPB == 70
DefaultMutationRate == 10
PenaltyTenths == 15

(* None, and a fitness that is not valid: the empty tuple *)
NoneVal == <<>>
Invalid == <<>>
(* a value that may be None: <<v>> *)
Some(v) == <<v>>
Unseeded == 0 - 1

Max(a, b) == IF a >= b THEN a ELSE b

(* the value of an expression, taken once *)
ValueOf(S) == CHOOSE v \in S : TRUE

(* the sum of a function's values; g and x are values already taken *)
RECURSIVE SumFun(_)
SumFun(f) ==
    ValueOf({IF DOMAIN g = {} THEN 0
             ELSE ValueOf({g[x] + SumFun([y \in DOMAIN g \ {x} |-> g[y]]) :
                              x \in {ValueOf(DOMAIN g)}}) :
             g \in {f}})

RECURSIVE MaxSet(_)
MaxSet(S) ==
    ValueOf({ValueOf({IF T = {x} THEN x ELSE Max(x, MaxSet(T \ {x})) :
                         x \in {ValueOf(T)}}) :
             T \in {S}})

(* ------------------------------------------------------- resource names  *)
(* A resource type name is a sequence of characters, so that lower() and   *)
(* the substring tests of the cost model are computed, not assumed.        *)
UpperCase == <<"A", "B", "C", "D", "E", "F", "G", "H", "I", "J", "K", "L", "M",
               "N", "O", "P", "Q", "R", "S", "T", "U", "V", "W", "X", "Y", "Z">>
LowerCase == <<"a", "b", "c", "d", "e", "f", "g", "h", "i", "j", "k", "l", "m",
               "n", "o", "p", "q", "r", "s", "t", "u", "v", "w", "x", "y", "z">>

LowerChar(c) ==
    IF \E i \in 1..Len(UpperCase) : UpperCase[i] = c
    THEN LowerCase[CHOOSE i \in 1..Len(UpperCase) : UpperCase[i] = c]
    ELSE c

lower(s) == [i \in 1..Len(s) |-> LowerChar(s[i])]

Contains(s, pat) ==
    \E i \in 1..(Len(s) - Len(pat) + 1) : SubSeq(s, i, i + Len(pat) - 1) = pat

ResCrane == <<"C", "r", "a", "n", "e">>
ResLabor == <<"l", "a", "b", "o", "r">>
ResPump == <<"p", "u", "m", "p">>
ResCraneTeam == <<"C", "R", "A", "N", "E", " ", "t", "e", "a", "m">>
ResWorker == <<"W", "o", "r", "k", "e", "r">>
ResDrill == <<"d", "r", "i", "l", "l">>

(* a faulty variant: the labour words tested before the crane *)
ClassifyRateLaborFirst(res_type) ==
    IF \/ Contains(lower(res_type), <<"w", "o", "r", "k", "e", "r">>)
       \/ Contains(lower(res_type), <<"t", "e", "a", "m">>)
       \/ Contains(lower(res_type), <<"l", "a", "b", "o", "r">>)
    THEN [cost |-> 100, carbon |-> 5]
    ELSE IF Contains(lower(res_type), <<"c", "r", "a", "n", "e">>)
    THEN [cost |-> 1000, carbon |-> 50]
    ELSE [cost |-> 200, carbon |-> 10]

(* base cost and base carbon per unit and day, by the name's class *)
ClassifyRate(res_type) ==
    IF Contains(lower(res_type), <<"c", "r", "a", "n", "e">>)
    THEN [cost |-> 1000, carbon |-> 50]
    ELSE IF \/ Contains(lower(res_type), <<"w", "o", "r", "k", "e", "r">>)
            \/ Contains(lower(res_type), <<"t", "e", "a", "m">>)
            \/ Contains(lower(res_type), <<"l", "a", "b", "o", "r">>)
    THEN [cost |-> 100, carbon |-> 5]
    ELSE [cost |-> 200, carbon |-> 10]

(* the resource type names of the inputs, classified once *)
ResourceNames == {ResCrane, ResLabor, ResPump, ResCraneTeam, ResWorker, ResDrill}
RateTable == [rt \in ResourceNames |-> ClassifyRate(rt)]
BaseRate(res_type) == RateTable[res_type]

(* ------------------------------------------------------------ mode table *)
Modes == {"eco", "standard", "performance"}

adjustment_factors ==
    [m \in Modes |->
        CASE m = "eco" -> [duration |-> 11, cost |-> 9, carbon |-> 7]
          [] m = "standard" -> [duration |-> 10, cost |-> 10, carbon |-> 10]
          [] m = "performance" -> [duration |-> 8, cost |-> 12, carbon |-> 15]]

(* --------------------------------------------------------------- inputs  *)
NoResources == [r \in {} |-> 0]

Task(id, duration, resources, dependencies) ==
    [id |-> id, duration |-> duration, resources |-> resources,
     dependencies |-> dependencies]

(* A then B, sharing a crane *)
TasksChain ==
    << Task("A", 1, [r \in {ResCrane} |-> 1], <<>>),
       Task("B", 1, [r \in {ResCrane, ResLabor} |-> IF r = ResCrane THEN 1 ELSE 2],
            <<"A">>) >>

(* one long task: eco lengthens it, performance shortens it *)
TasksLong == << Task("S", 10, [r \in {ResPump} |-> 1], <<>>) >>

(* the scenario of the specification: A(2), B(3) after A, C(1) after A and B *)
TasksScenario ==
    << Task("A", 2, NoResources, <<>>),
       Task("B", 3, NoResources, <<"A">>),
       Task("C", 1, NoResources, <<"A", "B">>) >>

(* accepted by validate_input_data, and not a dependency graph *)
TasksCycle ==
    << Task("A", 1, [r \in {ResPump} |-> 1], <<"B">>),
       Task("B", 1, NoResources, <<"A">>) >>

(* one task: a list that meets the data model *)
TasksSingle ==
    << Task("A", 1, [r \in {ResPump} |-> 1], <<>>) >>

(* a two-day task and a task that depends on it *)
TasksTwoDay ==
    << Task("A", 2, [r \in {ResPump} |-> 1], <<>>),
       Task("B", 1, [r \in {ResPump} |-> 1], <<"A">>) >>

(* a crane crew for two days, workers and a drill on the second task *)
TasksCrew ==
    << Task("A", 2, [r \in {ResCraneTeam, ResWorker} |-> IF r = ResWorker THEN 2 ELSE 1],
            <<>>),
       Task("B", 1, [r \in {ResCraneTeam, ResDrill, ResWorker} |->
                        IF r = ResDrill THEN 3 ELSE 1], <<>>) >>

TasksUnknownDep ==
    << Task("A", 1, [r \in {ResPump} |-> 1], <<>>),
       Task("B", 1, NoResources, <<"Z">>) >>

VARIABLES
    (* GeneticAlgorithmScheduler: the fields __init__ sets *)
    tasks, population_size, generations, mutation_rate, max_cost, mode,
    (* the run of optimize() *)
    pc, gen, idx, pop, offspring, daily_resources, result, error,
    (* the state of the random module's generator *)
    rng,
    (* eaSimple's record: the statistics of the population last compiled *)
    record,
    (* hof = tools.ParetoFront(): the archive eaSimple updates *)
    hof,
    (* the results of the runs the caller completed before this one *)
    outputs,
    (* ResourceOptimizer: its fields, and where optimize_schedule() stands *)
    ro_tasks, ro_dependencies, ro_mode, ro_results, ro_pc, ro_error

gaVars == <<tasks, population_size, generations, mutation_rate, max_cost, mode,
            pc, gen, idx, pop, offspring, daily_resources, result, error, rng, outputs,
            record, hof>>

roVars == <<ro_tasks, ro_dependencies, ro_mode, ro_results, ro_pc, ro_error>>

vars == <<gaVars, roVars>>

(* --------------------------------------------------- the scheduler's data *)
NumTasks == Len(tasks)

task_ids == [i \in 1..NumTasks |-> tasks[i].id]

(* _extract_resource_types: the keys of every task's resources *)
resource_types == UNION {DOMAIN tasks[i].resources : i \in 1..NumTasks}

max_duration == SumFun([i \in 1..NumTasks |-> tasks[i].duration])

(* list.index: the first position holding the id, 0 when there is none *)
IndexOf(id) ==
    IF \E i \in 1..NumTasks : task_ids[i] = id
    THEN CHOOSE i \in 1..NumTasks :
            task_ids[i] = id /\ \A j \in 1..(i - 1) : task_ids[j] # id
    ELSE 0

(* a faulty variant: the product rounded up *)
AdjustedDurationCeil(duration, factor) == Max(1, (duration * factor.duration + 9) \div 10)

AdjustedDuration(duration, factor) == Max(1, (duration * factor.duration) \div 10)

(* _create_schedule_dict: the candidate as a mapping, one entry per task   *)
(* (task ids are unique in every input drawn here, so the entry of task i  *)
(* is the entry of its id).                                                *)
create_schedule_dict(individual) ==
    [i \in 1..NumTasks |->
        [start |-> individual[i],
         resources |-> tasks[i].resources,
         duration |-> AdjustedDuration(tasks[i].duration, adjustment_factors[mode])]]

ZeroDay ==
    [resources |-> [rt \in resource_types |-> 0],
     cost |-> [rt \in resource_types |-> 0],
     carbon |-> [rt \in resource_types |-> 0]]

(* the body of the loop over one task's days and resources *)
AddTaskUsage(daily_usage, task_info, factor) ==
    LET days == task_info.start .. (task_info.start + task_info.duration - 1)
        used == {rt \in DOMAIN task_info.resources : rt \in resource_types}
        qty(rt) == IF rt \in used THEN task_info.resources[rt] ELSE 0
        Added(usage) ==
            [d \in (DOMAIN usage) \cup days |->
                IF d \in days
                THEN LET before == IF d \in DOMAIN usage THEN usage[d] ELSE ZeroDay
                     IN  [resources |-> [rt \in resource_types |->
                                            before.resources[rt] + qty(rt)],
                          cost |-> [rt \in resource_types |->
                                            before.cost[rt]
                                            + qty(rt) * BaseRate(rt).cost * factor.cost],
                          carbon |-> [rt \in resource_types |->
                                            before.carbon[rt]
                                            + qty(rt) * BaseRate(rt).carbon * factor.carbon]]
                ELSE usage[d]]
    IN  ValueOf({Added(usage) : usage \in {daily_usage}})

RECURSIVE DailyUsageFrom(_, _, _, _)
DailyUsageFrom(i, daily_usage, schedule, factor) ==
    IF i > Len(schedule) THEN daily_usage
    ELSE DailyUsageFrom(i + 1, AddTaskUsage(daily_usage, schedule[i], factor),
                        schedule, factor)

(* _calculate_daily_resource_usage: day -> quantity, cost, carbon per type *)
(* (cost and carbon in tenths)                                             *)
calculate_daily_resource_usage(schedule, factor) ==
    DailyUsageFrom(1, [d \in {} |-> ZeroDay], schedule, factor)

LedgerTotal(daily, field) ==
    SumFun([d \in DOMAIN daily |-> SumFun(daily[d][field])])

(* a faulty variant: the end day of the last task of the list *)
MakespanOfLast(schedule) ==
    IF Len(schedule) = 0 THEN 0
    ELSE schedule[Len(schedule)].start + schedule[Len(schedule)].duration

(* max(end_times): the latest end day, 0 for an empty task list *)
Makespan(schedule) ==
    IF Len(schedule) = 0 THEN 0
    ELSE MaxSet({schedule[i].start + schedule[i].duration : i \in 1..Len(schedule)})

(* a faulty variant: the constraint without the exemption of performance mode *)
ApplyCostConstraintAnyMode(duration, cost, carbon) ==
    IF max_cost # NoneVal /\ cost > 10 * max_cost[1]
    THEN <<(duration * PenaltyTenths) \div 10, (cost * PenaltyTenths) \div 10, carbon>>
    ELSE <<duration, cost, carbon>>

(* the cost constraint of _evaluate_schedule, on values in tenths *)
ApplyCostConstraint(duration, cost, carbon) ==
    IF max_cost # NoneVal /\ cost > 10 * max_cost[1] /\ mode # "performance"
    THEN <<(duration * PenaltyTenths) \div 10, (cost * PenaltyTenths) \div 10, carbon>>
    ELSE <<duration, cost, carbon>>

(* _evaluate_schedule: (duration, cost, carbon), each in tenths *)
evaluate_schedule(individual) ==
    LET schedule == create_schedule_dict(individual)
        factor == adjustment_factors[mode]
        daily == calculate_daily_resource_usage(schedule, factor)
    IN  ApplyCostConstraint(10 * Makespan(schedule),
                            LedgerTotal(daily, "cost"),
                            LedgerTotal(daily, "carbon"))

(* ------------------------------------------------------- the random module *)
(* Every draw reads the generator's state and advances it.  An unseeded    *)
(* generator (the program never seeds it) may return any value of the      *)
(* range; a seeded one is a 16-bit linear congruential generator, which    *)
(* stands for one run of the program per seed.                             *)
NextRng(r) == IF r = Unseeded THEN r ELSE (r * 25173 + 13849) % 65536

(* random.randint(lo, hi): empty when hi < lo, where randint raises *)
RandInt(r, lo, hi) ==
    IF hi < lo THEN {}
    ELSE IF r = Unseeded THEN lo..hi
    ELSE {lo + ((r \div 64) % (hi - lo + 1))}

(* random.random() < pct / 100, random() in [0, 1) *)
Chance(r, pct) ==
    IF r = Unseeded
    THEN {b \in BOOLEAN : (b => pct > 0) /\ (~b => pct < 100)}
    ELSE {((r \div 64) % 100) < pct}

(* ------------------------------------------------------------- candidates *)
Individual(genes, fitness) == [genes |-> genes, fitness |-> fitness]

(* tools.initRepeat(creator.Individual, attr_start_time, len(tasks)) *)
RECURSIVE DrawGenes(_, _)
DrawGenes(n, r) ==
    IF n = 0 THEN {[genes |-> <<>>, rng |-> r]}
    ELSE UNION {{[genes |-> <<v>> \o t.genes, rng |-> t.rng] :
                    t \in DrawGenes(n - 1, NextRng(r))} :
                v \in RandInt(r, 0, max_duration)}

(* toolbox.population(n): n candidates, none evaluated *)
RECURSIVE DrawPopulation(_, _)
DrawPopulation(n, r) ==
    IF n <= 0 THEN {[pop |-> <<>>, rng |-> r]}
    ELSE UNION {{[pop |-> <<Individual(g.genes, Invalid)>> \o t.pop, rng |-> t.rng] :
                    t \in DrawPopulation(n - 1, g.rng)} :
                g \in DrawGenes(NumTasks, r)}

(* the dependencies of task i that name no task: list.index raises on them *)
UnknownDependency(i) ==
    \E k \in 1..Len(tasks[i].dependencies) : IndexOf(tasks[i].dependencies[k]) = 0

(* a faulty variant: the dependency's duration subtracted instead of added *)
MinStartMinus(individual, i) ==
    IF tasks[i].dependencies = <<>> THEN 0
    ELSE MaxSet({individual[IndexOf(tasks[i].dependencies[k])]
                    - tasks[IndexOf(tasks[i].dependencies[k])].duration :
                 k \in 1..Len(tasks[i].dependencies)})

(* the lower end of the range gene i is resampled from *)
MinStart(individual, i) ==
    IF tasks[i].dependencies = <<>> THEN 0
    ELSE MaxSet({individual[IndexOf(tasks[i].dependencies[k])]
                    + tasks[IndexOf(tasks[i].dependencies[k])].duration :
                 k \in 1..Len(tasks[i].dependencies)})

Outcome(individual, r, err) == [individual |-> individual, rng |-> r, error |-> err]

RECURSIVE MutateFrom(_, _, _, _)
MutateFrom(i, individual, indpb, r) ==
    IF i > Len(individual) THEN {Outcome(individual, r, "none")}
    ELSE UNION {
        IF ~hit THEN MutateFrom(i + 1, individual, indpb, NextRng(r))
        ELSE IF UnknownDependency(i) THEN {Outcome(individual, NextRng(r), "ValueError")}
        ELSE LET lo == MinStart(individual, i)
                 hi == lo + tasks[i].duration * 2
                 r1 == NextRng(r)
             IN  IF RandInt(r1, lo, hi) = {} THEN {Outcome(individual, r1, "ValueError")}
                 ELSE UNION {MutateFrom(i + 1, [individual EXCEPT ![i] = v], indpb,
                                        NextRng(r1)) :
                             v \in RandInt(r1, lo, hi)}
        : hit \in Chance(r, indpb)}

(* _mutate_individual: every outcome of one pass over the genes *)
mutate_individual(individual, indpb, r) == MutateFrom(1, individual, indpb, r)

(* tools.cxTwoPoint: exchange the genes between two cut points *)
ExchangeSlice(ind1, ind2, cxpoint1, cxpoint2) ==
    [i \in 1..Len(ind1) |-> IF cxpoint1 < i /\ i <= cxpoint2 THEN ind2[i] ELSE ind1[i]]

cxTwoPoint(ind1, ind2, r) ==
    LET size == IF Len(ind1) <= Len(ind2) THEN Len(ind1) ELSE Len(ind2)
        r1 == NextRng(r)
        r2 == NextRng(r1)
    IN  IF RandInt(r, 1, size) = {} \/ RandInt(r1, 1, size - 1) = {}
        THEN {[ind1 |-> ind1, ind2 |-> ind2, rng |-> r2, error |-> "ValueError"]}
        ELSE {LET lo == IF c2 >= c1 THEN c1 ELSE c2
                  hi == IF c2 >= c1 THEN c2 + 1 ELSE c1
              IN  [ind1 |-> ExchangeSlice(ind1, ind2, lo, hi),
                   ind2 |-> ExchangeSlice(ind2, ind1, lo, hi),
                   rng |-> r2, error |-> "none"] :
              c1 \in RandInt(r, 1, size), c2 \in RandInt(r1, 1, size - 1)}

(* ---------------------------------------------------- fitness comparisons *)
(* a faulty variant: eco mode with a weight above 0 on the duration *)
WeightsEcoRewardsDuration(m) ==
    IF m = "eco" THEN <<1, 0 - 2, 0 - 2>>
    ELSE IF m = "performance" THEN <<0 - 2, 0 - 1, 0 - 1>>
    ELSE <<0 - 2, 0 - 2, 0 - 2>>

(* twice the weights creator.FitnessMulti is created with in a mode *)
WeightsOf(m) ==
    IF m = "eco" THEN <<0 - 1, 0 - 2, 0 - 2>>
    ELSE IF m = "performance" THEN <<0 - 2, 0 - 1, 0 - 1>>
    ELSE <<0 - 2, 0 - 2, 0 - 2>>

Weights == WeightsOf(mode)

wvalues(f) == [k \in 1..3 |-> f[k] * Weights[k]]

(* base.Fitness.dominates *)
Dominates(f, g) ==
    /\ \A k \in 1..3 : wvalues(f)[k] >= wvalues(g)[k]
    /\ \E k \in 1..3 : wvalues(f)[k] > wvalues(g)[k]

(* base.Fitness.__gt__: the weighted values compared as tuples *)
FitnessGreater(f, g) ==
    \E k \in 1..3 :
        /\ wvalues(f)[k] > wvalues(g)[k]
        /\ \A j \in 1..(k - 1) : wvalues(f)[j] = wvalues(g)[j]

(* the index of the non-dominated front a candidate is sorted into *)
RECURSIVE FrontOf(_, _)
FrontOf(i, individuals) ==
    LET dominators == {j \in 1..Len(individuals) :
                          Dominates(individuals[j].fitness, individuals[i].fitness)}
    IN  IF dominators = {} THEN 0
        ELSE 1 + MaxSet({FrontOf(j, individuals) : j \in dominators})

Orderings(n) ==
    {p \in [1..n -> 1..n] : \A a, b \in 1..n : a # b => p[a] # p[b]}

StableOrder(front) ==
    LET n == Len(front)
        place(i) == 1 + Cardinality({j \in 1..n :
                         front[j] < front[i] \/ (front[j] = front[i] /\ j < i)})
    IN  [q \in 1..n |-> CHOOSE i \in 1..n : place(i) = q]

(* tools.selNSGA2(individuals, len(individuals)): every candidate is kept,  *)
(* front by front.  The order inside a front is the library's tie-break:   *)
(* an unseeded run takes any order, a seeded run the order of the list.    *)
selNSGA2(individuals, r) ==
    LET n == Len(individuals)
        front == [i \in 1..n |-> FrontOf(i, individuals)]
        orders == IF r = Unseeded
                  THEN {p \in Orderings(n) :
                           \A a, b \in 1..n : a < b => front[p[a]] <= front[p[b]]}
                  ELSE {StableOrder(front)}
    IN  {[q \in 1..n |-> individuals[p[q]]] : p \in orders}

(* a faulty variant: the first candidate, whatever its fitness *)
selFirst(individuals) == individuals[1]

(* tools.selBest(pop, 1)[0]: the greatest fitness, the first of equals *)
selBest(individuals) ==
    individuals[CHOOSE i \in 1..Len(individuals) :
        /\ \A j \in 1..Len(individuals) :
              ~FitnessGreater(individuals[j].fitness, individuals[i].fitness)
        /\ \A j \in 1..(i - 1) :
              FitnessGreater(individuals[i].fitness, individuals[j].fitness)]

(* the candidates with an invalid fitness get the evaluator's value *)
EvaluateInvalid(individuals) ==
    [i \in 1..Len(individuals) |->
        IF individuals[i].fitness = Invalid
        THEN Individual(individuals[i].genes, evaluate_schedule(individuals[i].genes))
        ELSE individuals[i]]

(* ----------------------------------------------------- tools.ParetoFront *)
(* The program hands the archive to eaSimple and never reads it.  The model *)
(* keeps the fitness values of its members, from the greatest to the least; *)
(* members of equal fitness, which differ in their genes only, are kept as  *)
(* one.                                                                     *)

(* the items that stay when the positions of to_remove are deleted *)
RemoveItems(items, to_remove) ==
    LET kept == {i \in 1..Len(items) : i \notin to_remove}
        nth(q) == CHOOSE i \in kept : Cardinality({j \in kept : j < i}) = q - 1
    IN  [q \in 1..Cardinality(kept) |-> items[nth(q)]]

(* HallOfFame.insert: the new item goes before the items not greater than it *)
InsertItem(items, fitness) ==
    LET above == Cardinality({i \in 1..Len(items) : FitnessGreater(items[i], fitness)})
    IN  SubSeq(items, 1, above) \o <<fitness>> \o SubSeq(items, above + 1, Len(items))

(* the loop of ParetoFront.update over the archive for one candidate: it    *)
(* stops at a member that dominates the candidate or is its twin            *)
RECURSIVE ScanArchive(_, _, _, _, _)
ScanArchive(i, items, fitness, dominates_one, to_remove) ==
    IF i > Len(items)
    THEN [is_dominated |-> FALSE, has_twin |-> FALSE, to_remove |-> to_remove]
    ELSE IF ~dominates_one /\ Dominates(items[i], fitness)
    THEN [is_dominated |-> TRUE, has_twin |-> FALSE, to_remove |-> to_remove]
    ELSE IF Dominates(fitness, items[i])
    THEN ScanArchive(i + 1, items, fitness, TRUE, to_remove \cup {i})
    ELSE IF wvalues(fitness) = wvalues(items[i])
    THEN [is_dominated |-> FALSE, has_twin |-> TRUE, to_remove |-> to_remove]
    ELSE ScanArchive(i + 1, items, fitness, dominates_one, to_remove)

(* a faulty variant: the members the candidate dominates are kept *)
UpdateKeepingAll(items, fitness) ==
    ValueOf({IF ~scan.is_dominated /\ ~scan.has_twin
             THEN InsertItem(items, fitness)
             ELSE items :
             scan \in {ScanArchive(1, items, fitness, FALSE, {})}})

(* the archive after one candidate; the scan is made once *)
UpdateWith(items, fitness) ==
    ValueOf({IF ~scan.is_dominated /\ ~scan.has_twin
             THEN InsertItem(RemoveItems(items, scan.to_remove), fitness)
             ELSE RemoveItems(items, scan.to_remove) :
             scan \in {ScanArchive(1, items, fitness, FALSE, {})}})

(* ParetoFront.update(population): the candidates one after the other;    *)
(* the archive and the list are values already taken                        *)
RECURSIVE ParetoFrontUpdate(_, _)
ParetoFrontUpdate(items, population) ==
    ValueOf({IF p = <<>> THEN its
             ELSE ParetoFrontUpdate(UpdateWith(its, Head(p).fitness), Tail(p)) :
             its \in {items}, p \in {population}})

(* record = stats.compile(population): the column minimum (np.min, axis 0) *)
(* of the fitness values.  The column mean registered beside it is a float *)
(* nothing reads; the model keeps the minimum.                              *)
NoRecord == <<>>

CompileStats(individuals) ==
    [min |-> [k \in 1..3 |->
                 0 - MaxSet({0 - individuals[i].fitness[k] :
                                i \in 1..Len(individuals)})]]

(* ------------------------------------------------------ optimize(): result *)
(* a faulty variant: the days counted over max_day + 1 days, divided by max_day *)
UtilizationOverMaxDay(daily, res_type) ==
    LET max_day == IF DOMAIN daily = {} THEN 0 ELSE MaxSet(DOMAIN daily)
        active_days == Cardinality({day \in 0..max_day :
                           day \in DOMAIN daily /\ daily[day].resources[res_type] > 0})
    IN  IF max_day > 0 THEN [num |-> active_days * 100, den |-> max_day]
        ELSE [num |-> 0, den |-> 1]

(* resource_utilization[r] is the float 100 * num / den, kept as the pair *)
Utilization(daily, res_type) ==
    LET max_day == IF DOMAIN daily = {} THEN 0 ELSE MaxSet(DOMAIN daily)
        active_days == Cardinality({day \in 0..max_day :
                           day \in DOMAIN daily /\ daily[day].resources[res_type] > 0})
    IN  IF max_day > 0 THEN [num |-> active_days * 100, den |-> max_day + 1]
        ELSE [num |-> 0, den |-> 1]

(* daily_resources.get(day, {}).get(field, {}).get(res_type, 0) *)
LedgerGet(daily, day, field, res_type) ==
    IF day \in DOMAIN daily /\ res_type \in DOMAIN daily[day][field]
    THEN daily[day][field][res_type] ELSE 0

(* a faulty variant: the day range taken to the end day inclusive *)
TaskLedgerSumInclusive(daily, task_info, field) ==
    SumFun([c \in (DOMAIN task_info.resources)
                    \X (task_info.start .. (task_info.start + task_info.duration)) |->
                LedgerGet(daily, c[2], field, c[1])])

(* the sum over the task's own resource types and its days *)
TaskLedgerSum(daily, task_info, field) ==
    SumFun([c \in (DOMAIN task_info.resources)
                    \X (task_info.start .. (task_info.start + task_info.duration - 1)) |->
                LedgerGet(daily, c[2], field, c[1])])

ScheduleItem(i, task_info, daily) ==
    [task |-> tasks[i].id,
     start |-> task_info.start,
     end |-> task_info.start + task_info.duration,
     duration |-> task_info.duration,
     resources |-> DOMAIN tasks[i].resources,
     cost |-> TaskLedgerSum(daily, task_info, "cost"),
     carbon |-> TaskLedgerSum(daily, task_info, "carbon")]

(* list.sort(key = start): stable *)
SortByStart(items) ==
    LET order == StableOrder([i \in 1..Len(items) |-> items[i].start])
    IN  [q \in 1..Len(items) |-> items[order[q]]]

(* a faulty variant: the totals taken from the candidate's penalised fitness *)
OptimizationResultPenalised(best_individual) ==
    LET best_schedule == create_schedule_dict(best_individual)
        daily == calculate_daily_resource_usage(best_schedule, adjustment_factors[mode])
        fit == evaluate_schedule(best_individual)
    IN  [schedule |-> SortByStart([i \in 1..NumTasks |->
                                      ScheduleItem(i, best_schedule[i], daily)]),
         total_cost |-> fit[2],
         total_duration |-> fit[1] \div 10,
         carbon_footprint |-> LedgerTotal(daily, "carbon"),
         resource_utilization |-> [rt \in resource_types |-> Utilization(daily, rt)],
         mode |-> mode]

(* the part of optimize() after the evolutionary loop; best_schedule and  *)
(* daily_resources are computed once, as the code's local variables are    *)
OptimizationResult(best_individual) ==
    ValueOf({[schedule |-> SortByStart([i \in 1..NumTasks |->
                                          ScheduleItem(i, best_schedule[i], daily)]),
              total_cost |-> LedgerTotal(daily, "cost"),
              total_duration |-> Makespan(best_schedule),
              carbon_footprint |-> LedgerTotal(daily, "carbon"),
              resource_utilization |-> [rt \in resource_types |-> Utilization(daily, rt)],
              mode |-> mode] :
             best_schedule \in {create_schedule_dict(best_individual)},
             daily \in {calculate_daily_resource_usage(
                            create_schedule_dict(best_individual),
                            adjustment_factors[mode])}})

(* ------------------------------------------------------------ the actions *)
NoResult == <<>>
NoLedger == <<>>

Fail(err) ==
    /\ pc' = "error"
    /\ error' = err

configVars == <<tasks, population_size, generations, mutation_rate, max_cost, mode>>

(* pop = self.toolbox.population(n = self.population_size) *)
Population ==
    /\ pc = "ready"
    /\ \E d \in DrawPopulation(population_size, rng) :
          /\ pop' = d.pop
          /\ rng' = d.rng
    /\ pc' = "evaluate"
    /\ UNCHANGED <<configVars, gen, idx, offspring, daily_resources, result, error>>
    /\ UNCHANGED <<roVars, outputs, record, hof>>

(* eaSimple before its loop: evaluate the population, compile the statistics *)
EvaluatePopulation ==
    /\ pc = "evaluate"
    /\ gen = 0
    /\ IF Len(pop) = 0
       THEN Fail("ValueError") /\ UNCHANGED <<pop, record, hof>>
       ELSE IF mode \notin Modes
       THEN Fail("KeyError") /\ UNCHANGED <<pop, record, hof>>
       ELSE /\ \E population \in {EvaluateInvalid(pop)} :
                  /\ pop' = population
                  /\ hof' = ParetoFrontUpdate(hof, population)
                  /\ record' = CompileStats(population)
            /\ pc' = "select"
            /\ UNCHANGED error
    /\ UNCHANGED <<configVars, gen, idx, offspring, daily_resources, result, rng>>
    /\ UNCHANGED <<roVars, outputs>>

(* one generation begins: offspring = clones of toolbox.select(population). *)
(* The parents are not read again before population[:] = offspring, so the  *)
(* model drops them here; record still holds their statistics.              *)
Select ==
    /\ pc = "select"
    /\ gen < generations
    /\ gen' = gen + 1
    /\ offspring' \in selNSGA2(pop, rng)
    /\ pop' = <<>>
    /\ idx' = 1
    /\ pc' = IF Len(pop) >= 2 THEN "mate" ELSE "mutate"
    /\ UNCHANGED <<configVars, daily_resources, result, error, rng>>
    /\ UNCHANGED <<roVars, outputs, record, hof>>

(* varAnd, first loop: the pair (offspring[i - 1], offspring[i]), i = 1, 3, .. *)
Mate ==
    /\ pc = "mate"
    /\ LET a == 2 * idx - 1
           b == 2 * idx
           last == 2 * (idx + 1) > Len(offspring)
       IN  \E hit \in Chance(rng, CXPB) :
             IF ~hit
             THEN /\ rng' = NextRng(rng)
                  /\ idx' = IF last THEN 1 ELSE idx + 1
                  /\ pc' = IF last THEN "mutate" ELSE "mate"
                  /\ UNCHANGED <<offspring, error>>
             ELSE \E o \in cxTwoPoint(offspring[a].genes, offspring[b].genes, NextRng(rng)) :
                  /\ rng' = o.rng
                  /\ IF o.error # "none"
                     THEN Fail(o.error) /\ UNCHANGED <<offspring, idx>>
                     ELSE /\ offspring' = [offspring EXCEPT
                                              ![a] = Individual(o.ind1, Invalid),
                                              ![b] = Individual(o.ind2, Invalid)]
                          /\ idx' = IF last THEN 1 ELSE idx + 1
                          /\ pc' = IF last THEN "mutate" ELSE "mate"
                          /\ UNCHANGED error
    /\ UNCHANGED <<configVars, gen, pop, daily_resources, result>>
    /\ UNCHANGED <<roVars, outputs, record, hof>>

(* varAnd, second loop: candidate idx is mutated with probability mutpb *)
Mutate ==
    /\ pc = "mutate"
    /\ LET last == idx + 1 > Len(offspring)
       IN  \E hit \in Chance(rng, mutation_rate) :
             IF ~hit
             THEN /\ rng' = NextRng(rng)
                  /\ idx' = IF last THEN 1 ELSE idx + 1
                  /\ pc' = IF last THEN "replace" ELSE "mutate"
                  /\ UNCHANGED <<offspring, error>>
             ELSE \E o \in mutate_individual(offspring[idx].genes, mutation_rate,
                                              NextRng(rng)) :
                  /\ rng' = o.rng
                  /\ IF o.error # "none"
                     THEN Fail(o.error) /\ UNCHANGED <<offspring, idx>>
                     ELSE /\ offspring' = [offspring EXCEPT
                                              ![idx] = Individual(o.individual, Invalid)]
                          /\ idx' = IF last THEN 1 ELSE idx + 1
                          /\ pc' = IF last THEN "replace" ELSE "mutate"
                          /\ UNCHANGED error
    /\ UNCHANGED <<configVars, gen, pop, daily_resources, result>>
    /\ UNCHANGED <<roVars, outputs, record, hof>>

(* the generation ends: evaluate the changed candidates, population[:] = offspring *)
Replace ==
    /\ pc = "replace"
    /\ \E population \in {EvaluateInvalid(offspring)} :
          /\ hof' = ParetoFrontUpdate(hof, population)
          /\ pop' = population
          /\ record' = CompileStats(population)
    /\ offspring' = <<>>
    /\ pc' = "select"
    /\ UNCHANGED <<configVars, gen, idx, daily_resources, result, error, rng>>
    /\ UNCHANGED <<roVars, outputs>>

(* a faulty variant: the loop may be left before the last generation *)
FinishEarly ==
    /\ pc = "select"
    /\ gen >= generations - 1
    /\ LET best_individual == selBest(pop).genes
       IN  /\ result' = OptimizationResult(best_individual)
           /\ daily_resources' =
                 calculate_daily_resource_usage(create_schedule_dict(best_individual),
                                                adjustment_factors[mode])
    /\ pc' = "done"
    /\ UNCHANGED <<configVars, gen, idx, pop, offspring, error, rng>>
    /\ UNCHANGED <<roVars, outputs, record, hof>>

(* after the loop: the best candidate becomes the result *)
Finish ==
    /\ pc = "select"
    /\ gen >= generations
    /\ LET best_individual == selBest(pop).genes
       IN  /\ result' = OptimizationResult(best_individual)
           /\ daily_resources' =
                 calculate_daily_resource_usage(create_schedule_dict(best_individual),
                                                adjustment_factors[mode])
    /\ pc' = "done"
    /\ UNCHANGED <<configVars, gen, idx, pop, offspring, error, rng>>
    /\ UNCHANGED <<roVars, outputs, record, hof>>

Next == Population \/ EvaluatePopulation \/ Select \/ Mate \/ Mutate \/ Replace \/ Finish

(* ------------------------------------------------------ ResourceOptimizer *)
MaxTasksRO == 2
MaxRawTasks == 2
MaxRuns == 2

TaskNames == <<"T1", "T2", "T3", "T4">>
RODurations == {1, 10}
ROResources == {"crew", "crane"}
resource_costs == [res \in ROResources |-> IF res = "crane" THEN 1000 ELSE 100]
resource_carbon == [res \in ROResources |-> IF res = "crane" THEN 50 ELSE 5]

(* self.results as __init__ leaves it *)
InitialResults ==
    [schedule |-> <<>>, total_cost |-> 0, total_duration |-> 0,
     carbon_footprint |-> 0, resource_utilization |-> <<>>]

RONames == {ro_tasks[i].name : i \in 1..Len(ro_tasks)}

(* task_dict[name] *)
TaskNamed(name) == ro_tasks[CHOOSE i \in 1..Len(ro_tasks) : ro_tasks[i].name = name]

(* self.dependencies.get(task_name, []) *)
DependenciesOf(name) ==
    IF name \in DOMAIN ro_dependencies THEN ro_dependencies[name] ELSE <<>>

RECURSIVE visit(_, _)
RECURSIVE VisitEach(_, _, _)

(* for dependent in self.dependencies.get(task_name, []): visit(dependent) *)
VisitEach(names, k, st) ==
    IF k > Len(names) \/ st.raised THEN st
    ELSE VisitEach(names, k + 1, visit(names[k], st))

(* a faulty variant: the task stays in temp_visited after its visit *)
VisitKeepsTemp(task_name, st) ==
    IF st.raised THEN st
    ELSE IF task_name \in st.temp_visited THEN [st EXCEPT !.raised = TRUE]
    ELSE IF task_name \notin st.visited
    THEN LET inner == VisitEach(DependenciesOf(task_name), 1,
                          [st EXCEPT !.temp_visited = @ \cup {task_name}])
         IN  IF inner.raised THEN inner
             ELSE [inner EXCEPT !.visited = @ \cup {task_name},
                                !.order = Append(@, task_name)]
    ELSE st

(* visit(task_name): st.raised once the ValueError of a circular dependency *)
(* is raised, which ends the traversal                                      *)
visit(task_name, st) ==
    IF st.raised THEN st
    ELSE IF task_name \in st.temp_visited THEN [st EXCEPT !.raised = TRUE]
    ELSE IF task_name \notin st.visited
    THEN LET inner == VisitEach(DependenciesOf(task_name), 1,
                          [st EXCEPT !.temp_visited = @ \cup {task_name}])
         IN  IF inner.raised THEN inner
             ELSE [inner EXCEPT !.temp_visited = @ \ {task_name},
                                !.visited = @ \cup {task_name},
                                !.order = Append(@, task_name)]
    ELSE st

(* for task in self.tasks: if task["name"] not in visited: visit(task["name"]) *)
RECURSIVE VisitTasks(_, _)
VisitTasks(i, st) ==
    IF i > Len(ro_tasks) \/ st.raised THEN st
    ELSE IF ro_tasks[i].name \notin st.visited
    THEN VisitTasks(i + 1, visit(ro_tasks[i].name, st))
    ELSE VisitTasks(i + 1, st)

TopologicalVisit ==
    VisitTasks(1, [visited |-> {}, temp_visited |-> {}, order |-> <<>>, raised |-> FALSE])

Reverse(seq) == [i \in 1..Len(seq) |-> seq[Len(seq) + 1 - i]]

(* the loop over order that raises earliest_start to dependency start + duration *)
RECURSIVE StartOverDeps(_, _, _, _)
StartOverDeps(task_name, deps, k, earliest_start) ==
    IF k > Len(deps) THEN earliest_start
    ELSE StartOverDeps(task_name, deps, k + 1,
            [earliest_start EXCEPT ![task_name] =
                Max(@, earliest_start[deps[k]] + TaskNamed(deps[k]).duration)])

RECURSIVE StartOverOrder(_, _, _)
StartOverOrder(order, k, earliest_start) ==
    IF k > Len(order) THEN earliest_start
    ELSE StartOverOrder(order, k + 1,
            StartOverDeps(order[k], DependenciesOf(order[k]), 1, earliest_start))

(* a faulty variant: every task starts when the tasks before it in order end *)
EarliestStartSerial(order) ==
    [task_name \in {order[i] : i \in 1..Len(order)} |->
        SumFun([i \in {j \in 1..Len(order) :
                        \E k \in 1..Len(order) : k > j /\ order[k] = task_name} |->
                   TaskNamed(order[i]).duration])]

EarliestStart(order) ==
    StartOverOrder(order, 1, [task_name \in {order[i] : i \in 1..Len(order)} |-> 0])

(* one entry of the schedule; cost and carbon in tenths *)
ROScheduleItem(task_name, earliest_start, factor) ==
    LET task == TaskNamed(task_name)
        adjusted_duration == Max(1, (task.duration * factor.duration) \div 10)
    IN  [task |-> task_name,
         start |-> earliest_start[task_name],
         end |-> earliest_start[task_name] + adjusted_duration,
         duration |-> adjusted_duration,
         resources |-> task.required_resources,
         cost |-> SumFun([res \in task.required_resources |->
                     resource_costs[res] * factor.cost * adjusted_duration]),
         carbon |-> SumFun([res \in task.required_resources |->
                     resource_carbon[res] * factor.carbon * adjusted_duration])]

(* resource_timeline[res][t] after every task is entered; t < max_end_time + 1 *)
ResourceTimeline(items, max_end_time) ==
    [res \in ROResources |->
        [t \in 0..max_end_time |->
            Cardinality({i \in 1..Len(items) :
                /\ res \in items[i].resources
                /\ items[i].start <= t /\ t < items[i].end})]]

(* resource_utilization[res]: the float 100 * num / den, kept as the pair *)
ROUtilization(timeline, max_end_time) ==
    LET active_periods == Cardinality({t \in DOMAIN timeline : timeline[t] > 0})
    IN  IF max_end_time > 0 THEN [num |-> active_periods * 100, den |-> max_end_time]
        ELSE [num |-> 0, den |-> 1]

(* optimize_schedule() from the earliest starts on *)
ScheduleResults(order) ==
    LET earliest_start == EarliestStart(order)
        max_end_time == MaxSet({earliest_start[order[i]] + TaskNamed(order[i]).duration :
                                   i \in 1..Len(order)})
        factor == adjustment_factors[ro_mode]
        items == [i \in 1..Len(order) |-> ROScheduleItem(order[i], earliest_start, factor)]
        timeline == ResourceTimeline(items, max_end_time)
    IN  [schedule |-> SortByStart(items),
         total_cost |-> SumFun([i \in 1..Len(items) |-> items[i].cost]),
         total_duration |-> MaxSet({items[i].end : i \in 1..Len(items)}),
         carbon_footprint |-> SumFun([i \in 1..Len(items) |-> items[i].carbon]),
         resource_utilization |->
             [res \in ROResources |-> ROUtilization(timeline[res], max_end_time)],
         mode |-> ro_mode]

(* ResourceOptimizer.optimize_schedule() *)
OptimizeSchedule ==
    /\ ro_pc = "ready"
    /\ LET st == TopologicalVisit
       IN  IF st.raised
           THEN /\ ro_error' = "CircularDependency"
                /\ ro_pc' = "raised"
                /\ UNCHANGED ro_results
           ELSE /\ ro_results' = ScheduleResults(Reverse(st.order))
                /\ ro_pc' = "returned"
                /\ UNCHANGED ro_error
    /\ UNCHANGED <<ro_tasks, ro_dependencies, ro_mode>>
    /\ UNCHANGED gaVars

(* the dependency list of a task: the chosen names in the order of TaskNames *)
RECURSIVE ListOf(_, _)
ListOf(S, k) ==
    IF k > Len(TaskNames) THEN <<>>
    ELSE (IF TaskNames[k] \in S THEN <<TaskNames[k]>> ELSE <<>>) \o ListOf(S, k + 1)

ROTask(name, duration, required_resources) ==
    [name |-> name, duration |-> duration, required_resources |-> required_resources]

NoOptimizer ==
    /\ ro_tasks = <<>>
    /\ ro_dependencies = <<>>
    /\ ro_mode = "standard"
    /\ ro_results = InitialResults
    /\ ro_pc = "unused"
    /\ ro_error = "none"

StartRun ==
    /\ outputs = <<>>
    /\ record = NoRecord
    /\ hof = <<>>
    /\ gen = 0
    /\ idx = 1
    /\ pop = <<>>
    /\ offspring = <<>>
    /\ daily_resources = NoLedger
    /\ result = NoResult
    /\ error = "none"

(* ------------------------------------------------- utils.validate_input_data *)
(* A value of the parsed input file, with its Python type.  A float is held *)
(* in tenths, a string as its characters, a dictionary as a function.       *)
PyInt(n) == [type |-> "int", value |-> n]
PyFloat(tenths) == [type |-> "float", value |-> tenths]
PyStr(chars) == [type |-> "str", value |-> chars]
PyNone == [type |-> "NoneType", value |-> 0]
PyDict(f) == [type |-> "dict", value |-> f]
PyList(items) == [type |-> "list", value |-> items]

Digits == {"0", "1", "2", "3", "4", "5", "6", "7", "8", "9"}

(* the strings int() parses: an optional sign and then digits only *)
IsIntLiteral(chars) ==
    LET signed == Len(chars) >= 1 /\ chars[1] \in {"+", "-"}
        first == IF signed THEN 2 ELSE 1
    IN  /\ Len(chars) >= first
        /\ \A k \in first..Len(chars) : chars[k] \in Digits

(* int(v) returns; otherwise it raises ValueError or TypeError *)
IntConvertible(v) ==
    CASE v.type = "int" -> TRUE
      [] v.type = "float" -> TRUE
      [] v.type = "str" -> IsIntLiteral(v.value)
      [] OTHER -> FALSE

(* validate_input_data(tasks): "ok", or the error it raises *)
validate_input_data(task_list) ==
    IF task_list = <<>> THEN "ValueError"
    ELSE IF \E i \in 1..Len(task_list) :
               \/ ~({"id", "duration"} \subseteq DOMAIN task_list[i])
               \/ ~IntConvertible(task_list[i].duration)
               \/ /\ "resources" \in DOMAIN task_list[i]
                  /\ task_list[i].resources.type # "dict"
    THEN "ValueError"
    ELSE "ok"

(* the scheduler's task list as the parsed input it was built from *)
AsInput(task_list) ==
    [i \in 1..Len(task_list) |->
        [id |-> task_list[i].id,
         duration |-> PyInt(task_list[i].duration),
         resources |-> PyDict(task_list[i].resources),
         dependencies |-> task_list[i].dependencies]]

(* the fields a task of an input file may hold *)
RawIds == {"A"}
RawDurations ==
    {PyInt(0 - 1), PyInt(0), PyInt(1), PyInt(3), PyFloat(25), PyNone,
     PyStr(<<"3">>), PyStr(<<"-", "2">>), PyStr(<<"a", "b">>), PyStr(<<>>)}
RawResources ==
    {PyDict([r \in {"crane"} |-> 1]), PyDict([r \in {"crane"} |-> 0 - 1]),
     PyDict(<<>>), PyList(<<"crane">>)}

RawTasks ==
    {[id |-> i, duration |-> d, resources |-> r] : i \in RawIds, d \in RawDurations, r \in RawResources}
        \cup {[id |-> i, duration |-> d] : i \in RawIds, d \in RawDurations}
        \cup {[duration |-> d, resources |-> r] : d \in RawDurations, r \in RawResources}
        \cup {[id |-> i, resources |-> r] : i \in RawIds, r \in RawResources}

(* validate_input_data called on a parsed input *)
ValidateInput ==
    /\ pc = "input"
    /\ error' = IF validate_input_data(tasks) = "ok" THEN "none" ELSE validate_input_data(tasks)
    /\ pc' = IF validate_input_data(tasks) = "ok" THEN "accepted" ELSE "rejected"
    /\ UNCHANGED <<configVars, gen, idx, pop, offspring, daily_resources, result, rng>>
    /\ UNCHANGED <<roVars, outputs, record, hof>>

(* task lists that meet the data model with a population size, a cost      *)
(* ceiling, the modes they are run in and the number of generations: the    *)
(* chain in standard mode with a ceiling every candidate exceeds, a pair    *)
(* of candidates for MaxGen generations and every larger population for     *)
(* one; the chain in every mode at size one with and without that ceiling;  *)
(* the long task in every mode at size one, also with the ceiling its       *)
(* standard cost equals                                                     *)
ValidInputs ==
    {<<TasksChain, 2, Some(0), {"standard"}, MaxGen>>}
        \cup {<<TasksChain, n, Some(0), {"standard"}, 1>> : n \in 3..MaxPop}
        \cup {<<TasksChain, 1, c, Modes, MaxGen>> : c \in {NoneVal, Some(0)}}
        \cup {<<TasksLong, 1, c, Modes, MaxGen>> : c \in {NoneVal, Some(0), Some(2000)}}

Init ==
    /\ \E in \in ValidInputs :
          /\ tasks = in[1]
          /\ population_size = in[2]
          /\ max_cost = in[3]
          /\ mode \in in[4]
          /\ generations = in[5]
    /\ mutation_rate = DefaultMutationRate
    /\ rng = Unseeded
    /\ pc = "ready"
    /\ StartRun
    /\ NoOptimizer

Spec == Init /\ [][Next]_vars

(* Runs of one and of MaxGen generations on the chain in standard mode,     *)
(* with a pair of candidates so that crossover and mutation both take       *)
(* place.  optimize() is one call that runs to its end: a step that can be  *)
(* taken is taken.                                                          *)
InitFair ==
    /\ tasks = TasksChain
    /\ population_size = 2
    /\ generations \in {1, MaxGen}
    /\ mutation_rate = DefaultMutationRate
    /\ max_cost = NoneVal
    /\ mode = "standard"
    /\ rng = Unseeded
    /\ pc = "ready"
    /\ StartRun
    /\ NoOptimizer

FairSpec == InitFair /\ [][Next]_vars /\ WF_vars(Next)

(* ------------------------------------------------ the other specifications *)
(* What the constructor takes without complaint: task lists that           *)
(* validate_input_data accepts, whatever their dependencies, and           *)
(* configurations inside and outside the documented ranges.                *)
InitSetup ==
    /\ tasks \in {TasksChain, TasksSingle, TasksCycle, TasksUnknownDep}
    /\ population_size \in 0..MaxPop
    /\ generations \in 0..1
    /\ mutation_rate \in {0 - 10, DefaultMutationRate, 150}
    /\ max_cost = NoneVal
    /\ mode \in {"standard", "turbo"}
    /\ rng = Unseeded
    /\ pc = "ready"
    /\ StartRun
    /\ NoOptimizer

SpecSetup == InitSetup /\ [][Next]_vars

(* The scenario of the specification with its own parameters: population   *)
(* 10, 5 generations, standard mode, the default mutation rate.  The draws *)
(* of a population of ten are too many to enumerate, so each behaviour is  *)
(* the run of one seed of the generator.                                   *)
InitScenario ==
    /\ tasks = TasksScenario
    /\ population_size = 10
    /\ generations = 5
    /\ mutation_rate = DefaultMutationRate
    /\ max_cost = NoneVal
    /\ mode = "standard"
    /\ rng \in 0..(NumSeeds - 1)
    /\ pc = "ready"
    /\ StartRun
    /\ NoOptimizer

SpecScenario == InitScenario /\ [][Next]_vars

(* The caller keeps the result and runs the same task list with the same   *)
(* configuration again: a new scheduler, a new call of optimize().  Neither *)
(* __init__ nor optimize() seeds the generator, so it goes on from the      *)
(* state the run before left it in.                                         *)
RunAgain ==
    /\ pc = "done"
    /\ Len(outputs) < MaxRuns - 1
    /\ outputs' = Append(outputs, result)
    /\ pc' = "ready"
    /\ gen' = 0
    /\ idx' = 1
    /\ pop' = <<>>
    /\ offspring' = <<>>
    /\ daily_resources' = NoLedger
    /\ result' = NoResult
    /\ record' = NoRecord
    /\ hof' = <<>>
    /\ error' = "none"
    /\ UNCHANGED <<configVars, rng>>
    /\ UNCHANGED roVars

InitRepeat ==
    /\ tasks = TasksChain
    /\ population_size = MaxPop
    /\ generations = 1
    /\ mutation_rate = DefaultMutationRate
    /\ max_cost = NoneVal
    /\ mode = "standard"
    /\ rng = Unseeded
    /\ pc = "ready"
    /\ StartRun
    /\ NoOptimizer

(* One generation on a list whose dependency lasts two days, in each mode:  *)
(* its adjusted duration is one day in performance mode.                    *)
InitMutation ==
    /\ tasks = TasksTwoDay
    /\ population_size = MaxPop
    /\ generations = 1
    /\ mutation_rate = DefaultMutationRate
    /\ max_cost = NoneVal
    /\ mode \in Modes
    /\ rng = Unseeded
    /\ pc = "ready"
    /\ StartRun
    /\ NoOptimizer

SpecMutation == InitMutation /\ [][Next]_vars

(* _evaluate_schedule called on one candidate: the fitness, and the ledger  *)
(* its local daily_resources holds                                          *)
MaxStart == 3

EvaluateCandidate ==
    /\ pc = "ready"
    /\ \E genes \in [1..NumTasks -> 0..MaxStart] :
          /\ pop' = <<Individual(genes, evaluate_schedule(genes))>>
          /\ daily_resources' =
                calculate_daily_resource_usage(create_schedule_dict(genes),
                                               adjustment_factors[mode])
    /\ pc' = "evaluated"
    /\ UNCHANGED <<configVars, gen, idx, offspring, result, error, rng>>
    /\ UNCHANGED <<roVars, outputs, record, hof>>

InitLedger ==
    /\ tasks \in {TasksCrew, TasksChain, TasksTwoDay, TasksLong}
    /\ population_size = 1
    /\ generations = 1
    /\ mutation_rate = DefaultMutationRate
    /\ max_cost = NoneVal
    /\ mode \in Modes
    /\ rng = Unseeded
    /\ pc = "ready"
    /\ StartRun
    /\ NoOptimizer

NextLedger == EvaluateCandidate

SpecLedger == InitLedger /\ [][NextLedger]_vars

(* Two candidates are given fitness values (ind.fitness.values = ...) and   *)
(* compared, in a scheduler of each mode.                                   *)
MaxObjective == 2

AssignFitness ==
    /\ pc = "ready"
    /\ \E f, g \in [1..3 -> 0..MaxObjective] :
          pop' = <<Individual([i \in 1..NumTasks |-> 0], f),
                   Individual([i \in 1..NumTasks |-> 0], g)>>
    /\ pc' = "select"
    /\ UNCHANGED <<configVars, gen, idx, offspring, daily_resources, result, error, rng>>
    /\ UNCHANGED <<roVars, outputs, record, hof>>

(* hof.update(pop): the comparisons of the archive *)
UpdateArchive ==
    /\ pc = "select"
    /\ hof' = ParetoFrontUpdate(hof, pop)
    /\ pc' = "archived"
    /\ UNCHANGED <<configVars, gen, idx, pop, offspring, daily_resources, result, error,
                   rng>>
    /\ UNCHANGED <<roVars, outputs, record>>

InitDominance ==
    /\ tasks = TasksSingle
    /\ population_size = 2
    /\ generations = 0
    /\ mutation_rate = DefaultMutationRate
    /\ max_cost = NoneVal
    /\ mode \in Modes
    /\ rng = Unseeded
    /\ pc = "ready"
    /\ StartRun
    /\ NoOptimizer

NextDominance == AssignFitness \/ UpdateArchive

SpecDominance == InitDominance /\ [][NextDominance]_vars

NextRepeat == Next \/ RunAgain

SpecRepeat == InitRepeat /\ [][NextRepeat]_vars

(* Parsed inputs of up to MaxRawTasks tasks, well formed or not, handed to *)
(* validate_input_data.                                                    *)
InitValidate ==
    /\ \E n \in 0..MaxRawTasks : tasks \in [1..n -> RawTasks]
    /\ population_size = 1
    /\ generations = 1
    /\ mutation_rate = DefaultMutationRate
    /\ max_cost = NoneVal
    /\ mode = "standard"
    /\ rng = Unseeded
    /\ pc = "input"
    /\ StartRun
    /\ NoOptimizer

NextValidate == ValidateInput

SpecValidate == InitValidate /\ [][NextValidate]_vars

(* a parsed input file: 1 .. MaxTasksRO tasks, every dependency names a task *)
InitRO ==
    /\ \E n \in 1..MaxTasksRO :
          /\ \E durations \in [1..n -> RODurations],
                resources \in [1..n -> (SUBSET ROResources) \ {{}}] :
                ro_tasks = [i \in 1..n |-> ROTask(TaskNames[i], durations[i], resources[i])]
          /\ \E deps \in [{TaskNames[i] : i \in 1..n} -> SUBSET {TaskNames[i] : i \in 1..n}] :
                ro_dependencies = [name \in DOMAIN deps |-> ListOf(deps[name], 1)]
    /\ ro_mode \in Modes
    /\ ro_results = InitialResults
    /\ ro_pc = "ready"
    /\ ro_error = "none"
    /\ tasks = <<>>
    /\ population_size = 0
    /\ generations = 0
    /\ mutation_rate = 0
    /\ max_cost = NoneVal
    /\ mode = "standard"
    /\ rng = Unseeded
    /\ StartRun
    /\ pc = "unused"

NextRO == OptimizeSchedule

SpecRO == InitRO /\ [][NextRO]_vars

(* ================================================================ claims *)
Evaluated(individuals) == {i \in 1..Len(individuals) : individuals[i].fitness # Invalid}

(* makespan, cost and carbon of a candidate before any penalty, in tenths *)
Unpenalized(genes) ==
    LET schedule == create_schedule_dict(genes)
        daily == calculate_daily_resource_usage(schedule, adjustment_factors[mode])
    IN  <<10 * Makespan(schedule), LedgerTotal(daily, "cost"), LedgerTotal(daily, "carbon")>>

(* the stored ledger summed over a set of days and of resource types *)
LedgerOver(days, types, field) ==
    SumFun([c \in types \X days |->
               IF c[2] \in DOMAIN daily_resources
                  /\ c[1] \in DOMAIN daily_resources[c[2]][field]
               THEN daily_resources[c[2]][field][c[1]] ELSE 0])

(* C1: in the result of optimize, every task's reported cost (carbon) is the *)
(* ledger's cost (carbon) summed over the days start <= d < end of the task  *)
(* and over the task's own resource types.                                   *)
C1_LedgerConservation ==
    pc = "done" =>
        \A k \in 1..Len(result.schedule) :
            LET item == result.schedule[k]
                days == item.start .. (item.end - 1)
            IN  /\ item.cost = LedgerOver(days, item.resources, "cost")
                /\ item.carbon = LedgerOver(days, item.resources, "carbon")

(* a result in which two tasks share a day and a resource type *)
C1_Witness ==
    /\ pc = "done"
    /\ \E k, l \in 1..Len(result.schedule) :
          /\ k # l
          /\ result.schedule[k].start < result.schedule[l].end
          /\ result.schedule[l].start < result.schedule[k].end
          /\ result.schedule[k].resources \cap result.schedule[l].resources # {}
          /\ result.schedule[k].cost > 0

(* C2: an evaluated candidate's fitness is the unpenalized triple when the   *)
(* mode is performance, or max_cost is unset, or max_cost >= the unpenalized *)
(* cost; otherwise it is (1.5 x makespan, 1.5 x cost, carbon).               *)
C2_PenaltyRule ==
    \A i \in Evaluated(pop) :
        LET u == Unpenalized(pop[i].genes)
            f == pop[i].fitness
        IN  IF mode = "performance" \/ max_cost = NoneVal \/ 10 * max_cost[1] >= u[2]
            THEN f = u
            ELSE 10 * f[1] = 15 * u[1] /\ 10 * f[2] = 15 * u[2] /\ f[3] = u[3]

(* an evaluated candidate whose cost is above the ceiling, outside performance *)
C2_Witness ==
    \E i \in Evaluated(pop) :
        /\ mode # "performance"
        /\ max_cost # NoneVal
        /\ Unpenalized(pop[i].genes)[2] > 10 * max_cost[1]
        /\ pop[i].fitness[2] > Unpenalized(pop[i].genes)[2]

PenaltyScenario == pc = "done" /\ mode = "standard" /\ max_cost = Some(0)

(* C3, as claimed: with max_cost = 0 in standard mode the result's           *)
(* total_cost and total_duration are 1.5 times the ledger sum and 1.5 times  *)
(* the makespan of the selected candidate.                                   *)
C3_ResultCarriesPenalty ==
    PenaltyScenario =>
        /\ 10 * result.total_cost = 15 * LedgerTotal(daily_resources, "cost")
        /\ 10 * result.total_duration
             = 15 * Makespan(create_schedule_dict(selBest(pop).genes))

(* C3, amended: with max_cost = 0 in standard mode the result's total_cost   *)
(* and total_duration are the unpenalized ledger sum and makespan of the     *)
(* selected candidate; 1.5 times them is that candidate's fitness.           *)
C3_PenaltyInFitnessOnly ==
    PenaltyScenario =>
        /\ result.total_cost = LedgerTotal(daily_resources, "cost")
        /\ result.total_duration = Makespan(create_schedule_dict(selBest(pop).genes))
        /\ selBest(pop).fitness[1] = 15 * result.total_duration
        /\ 10 * selBest(pop).fitness[2] = 15 * result.total_cost

C3_Witness == PenaltyScenario /\ result.total_cost > 0 /\ result.total_duration > 0

(* C4: the scenario A(2), B(3) after A, C(1) after A and B, standard mode,   *)
(* population 10, 5 generations: every run returns total_duration >= 6.      *)
C4_CriticalPathFloor ==
    (pc = "done" /\ tasks = TasksScenario /\ population_size = 10 /\ generations = 5
        /\ mode = "standard")
    => result.total_duration >= 6

(* C5: in the result of optimize, every resource_utilization value lies in   *)
(* [0, 100].                                                                 *)
C5_UtilizationBounds ==
    pc = "done" =>
        \A rt \in DOMAIN result.resource_utilization :
            LET u == result.resource_utilization[rt]
            IN  u.den > 0 /\ 0 <= u.num /\ u.num <= 100 * u.den

(* a result in which a resource type is in use on every day of a timeline   *)
(* of more than one day                                                      *)
C5_Witness ==
    /\ pc = "done"
    /\ \E rt \in DOMAIN result.resource_utilization :
          /\ result.resource_utilization[rt].den > 1
          /\ result.resource_utilization[rt].num = 100 * result.resource_utilization[rt].den

(* C6: in the result of optimize_schedule, every resource_utilization value  *)
(* lies in [0, 100], in every mode.                                          *)
C6_UtilizationBounds ==
    ro_pc = "returned" =>
        \A res \in DOMAIN ro_results.resource_utilization :
            LET u == ro_results.resource_utilization[res]
            IN  u.den > 0 /\ 0 <= u.num /\ u.num <= 100 * u.den

WellShaped(individuals) ==
    \A i \in 1..Len(individuals) :
        /\ Len(individuals[i].genes) = NumTasks
        /\ \A k \in 1..Len(individuals[i].genes) : individuals[i].genes[k] \in Nat

(* C7: with task durations >= 1, every candidate of the population, and     *)
(* every candidate crossover and mutation return, has one entry per task,    *)
(* each a non-negative integer.                                              *)
C7_Closure == WellShaped(pop) /\ WellShaped(offspring)

(* the end of a generation in which both candidates were changed and a gene *)
(* lies beyond the range of the initial draws, where only mutation puts it  *)
C7_Witness ==
    /\ pc = "replace"
    /\ Len(offspring) = 2
    /\ \A i \in 1..2 : offspring[i].fitness = Invalid
    /\ \E i \in 1..2, k \in 1..NumTasks : offspring[i].genes[k] > max_duration

(* the dependency ids of the tasks whose id is in ids *)
DependencyIds(ids) ==
    UNION {{tasks[i].dependencies[k] : k \in 1..Len(tasks[i].dependencies)} :
              i \in {j \in 1..NumTasks : tasks[j].id \in ids}}

RECURSIVE ReachedFrom(_)
ReachedFrom(ids) ==
    LET more == ids \cup DependencyIds(ids)
    IN  IF more = ids THEN ids ELSE ReachedFrom(more)

UnknownDependencyId ==
    DependencyIds({tasks[i].id : i \in 1..NumTasks}) \ {tasks[i].id : i \in 1..NumTasks} # {}

DependencyCycle ==
    \E i \in 1..NumTasks : tasks[i].id \in ReachedFrom(DependencyIds({tasks[i].id}))

(* C8: a task list validate_input_data accepts, with a dependency id that   *)
(* is no task or with a dependency cycle, is rejected before the loop: no    *)
(* candidate is evaluated, no generation is run and no result is returned.   *)
C8_DependenciesValidated ==
    (validate_input_data(AsInput(tasks)) = "ok" /\ (UnknownDependencyId \/ DependencyCycle))
    => /\ gen = 0
       /\ Evaluated(pop) = {}
       /\ result = NoResult

(* the names reached from a set of names by following self.dependencies *)
RECURSIVE ROReachedFrom(_)
ROReachedFrom(names) ==
    LET more == names \cup UNION {{ro_dependencies[n][k] : k \in 1..Len(ro_dependencies[n])} :
                                     n \in names \cap DOMAIN ro_dependencies}
    IN  IF more = names THEN names ELSE ROReachedFrom(more)

ROHasCycle ==
    \E n \in DOMAIN ro_dependencies :
        n \in ROReachedFrom({ro_dependencies[n][k] : k \in 1..Len(ro_dependencies[n])})

(* C9: optimize_schedule raises the circular-dependency error exactly when  *)
(* the dependency graph has a cycle (a task that depends on itself          *)
(* included), and when it raises, self.results is what it was before.       *)
C9_CircularExactly ==
    ro_pc \in {"raised", "returned"} =>
        /\ (ro_pc = "raised") <=> ROHasCycle
        /\ (ro_error = "CircularDependency") <=> ROHasCycle
        /\ ro_pc = "raised" => ro_results = InitialResults

(* a raise on two tasks that depend on each other and not on themselves *)
C9_Witness ==
    /\ ro_pc = "raised"
    /\ Len(ro_tasks) >= 2
    /\ ro_dependencies[TaskNames[1]] = <<TaskNames[2]>>
    /\ ro_dependencies[TaskNames[2]] = <<TaskNames[1]>>
    /\ ro_results = InitialResults

MalformedConfiguration ==
    \/ population_size <= 0
    \/ generations <= 0
    \/ mutation_rate < 0
    \/ mutation_rate > 100
    \/ mode \notin Modes

(* C10: a configuration with population_size <= 0, generations <= 0, a      *)
(* mutation rate outside [0, 1] or a mode that is none of the three is      *)
(* rejected before the loop: no population is created or evaluated and no   *)
(* result is returned.                                                      *)
C10_ConfigurationRejected ==
    MalformedConfiguration =>
        /\ pop = <<>>
        /\ offspring = <<>>
        /\ result = NoResult

DigitChars == <<"0", "1", "2", "3", "4", "5", "6", "7", "8", "9">>

RECURSIVE DigitsValue(_, _, _)
DigitsValue(chars, k, acc) ==
    IF k > Len(chars) THEN acc
    ELSE DigitsValue(chars, k + 1,
            10 * acc + (CHOOSE n \in 0..9 : DigitChars[n + 1] = chars[k]))

(* the integer int() returns for a duration it converts: a float is cut    *)
(* towards zero, a string is read as a signed decimal                      *)
IntOf(v) ==
    CASE v.type = "int" -> v.value
      [] v.type = "float" -> IF v.value >= 0 THEN v.value \div 10 ELSE 0 - ((0 - v.value) \div 10)
      [] v.type = "str" ->
            IF v.value[1] = "-" THEN 0 - DigitsValue(v.value, 2, 0)
            ELSE IF v.value[1] = "+" THEN DigitsValue(v.value, 2, 0)
            ELSE DigitsValue(v.value, 1, 0)
      [] OTHER -> 0

(* the data model of a task: id and duration present, the duration an      *)
(* integer >= 1 (read as: a value int() converts to one), the resources,   *)
(* if any, a mapping to non-negative integers                              *)
MeetsDataModel(task) ==
    /\ {"id", "duration"} \subseteq DOMAIN task
    /\ IntConvertible(task.duration)
    /\ IntOf(task.duration) >= 1
    /\ "resources" \in DOMAIN task =>
          /\ task.resources.type = "dict"
          /\ \A r \in DOMAIN task.resources.value : task.resources.value[r] >= 0

(* C11: validate_input_data accepts only task lists in which every task    *)
(* has id and duration, a duration that is an integer >= 1 and resources    *)
(* that map to non-negative integers; every other list is rejected.         *)
C11_ValidationComplete ==
    pc = "accepted" => \A i \in 1..Len(tasks) : MeetsDataModel(tasks[i])


(* C12: on a task list validate_input_data accepts, no step of the search  *)
(* raises and optimize returns a result.  Stated for the runs in which the  *)
(* configuration is in its documented ranges and every dependency is a      *)
(* task of an acyclic relation, the least the claim covers.                 *)
C12_SearchNeverRaises ==
    (/\ validate_input_data(AsInput(tasks)) = "ok"
     /\ ~MalformedConfiguration
     /\ ~UnknownDependencyId
     /\ ~DependencyCycle)
    => pc # "error"


(* C13: in the result of optimize_schedule, every task without dependencies *)
(* starts at 0.                                                             *)
C13_NoDependencyStartsAtZero ==
    ro_pc = "returned" =>
        \A k \in 1..Len(ro_results.schedule) :
            DependenciesOf(ro_results.schedule[k].task) = <<>>
                => ro_results.schedule[k].start = 0

(* a result of two tasks, one without dependencies at 0 and one after it *)
C13_Witness ==
    /\ ro_pc = "returned"
    /\ \E k, l \in 1..Len(ro_results.schedule) :
          /\ DependenciesOf(ro_results.schedule[k].task) = <<>>
          /\ ro_results.schedule[k].start = 0
          /\ DependenciesOf(ro_results.schedule[l].task) = <<ro_results.schedule[k].task>>
          /\ ro_results.schedule[l].start > 0


(* C14: two runs on the same task list with the same configuration return  *)
(* the same output.                                                         *)
C14_Determinism ==
    (pc = "done" /\ outputs # <<>>) => result = outputs[1]


(* C15: optimize runs exactly `generations` generations: the generation     *)
(* counter never exceeds `generations`, the run returns only after the      *)
(* last generation, and it does return.                                     *)
C15_RunsAllGenerations ==
    /\ [](gen <= generations)
    /\ [](pc = "done" => (gen = generations /\ result # NoResult))
    /\ <>(pc = "done")

(* a returned run of more than one generation *)
C15_Witness == pc = "done" /\ gen = generations /\ generations >= 2 /\ result # NoResult


(* f is no worse than g in makespan, cost and carbon, and better in one *)
ParetoDominates(f, g) ==
    /\ \A k \in 1..3 : f[k] <= g[k]
    /\ \E k \in 1..3 : f[k] < g[k]

(* candidate i of the population is the one the result was made from *)
IsResultCandidate(i) ==
    \A k \in 1..Len(result.schedule) :
        \A t \in 1..NumTasks :
            tasks[t].id = result.schedule[k].task
                => result.schedule[k].start = pop[i].genes[t]

(* C16: the candidate the result is made from is a member of the final    *)
(* population that no candidate of the final population dominates.         *)
C16_ResultIsRankOne ==
    pc = "done" =>
        \E i \in 1..Len(pop) :
            /\ IsResultCandidate(i)
            /\ \A j \in 1..Len(pop) : ~ParetoDominates(pop[j].fitness, pop[i].fitness)

(* a result made from a candidate that dominates another of the population *)
C16_Witness ==
    /\ pc = "done"
    /\ \E i, j \in 1..Len(pop) :
          /\ IsResultCandidate(i)
          /\ ParetoDominates(pop[i].fitness, pop[j].fitness)


(* C17: the result holds one schedule entry per task; each has             *)
(* end = start + duration with duration = max(1, floor(task duration x the *)
(* mode's duration multiplier)); total_duration is the greatest end.       *)
C17_ScheduleShape ==
    pc = "done" =>
        /\ Len(result.schedule) = NumTasks
        /\ \A t \in 1..NumTasks :
              Cardinality({k \in 1..Len(result.schedule) :
                              result.schedule[k].task = tasks[t].id}) = 1
        /\ \A k \in 1..Len(result.schedule) :
              LET item == result.schedule[k]
              IN  /\ item.end = item.start + item.duration
                  /\ item.end <= result.total_duration
                  /\ \A t \in 1..NumTasks :
                        tasks[t].id = item.task =>
                            \E whole \in 0..(2 * tasks[t].duration) :
                                /\ 10 * whole <= tasks[t].duration * adjustment_factors[mode].duration
                                /\ tasks[t].duration * adjustment_factors[mode].duration < 10 * (whole + 1)
                                /\ item.duration = IF whole >= 1 THEN whole ELSE 1
        /\ \E k \in 1..Len(result.schedule) :
              result.schedule[k].end = result.total_duration

(* a result of two tasks that end on different days, in a mode whose       *)
(* multiplier gives a product that is no whole number                      *)
C17_Witness ==
    /\ pc = "done"
    /\ mode # "standard"
    /\ Len(result.schedule) = 2
    /\ result.schedule[1].end # result.schedule[2].end
    /\ result.schedule[1].duration = 1


(* the entry of a task in the result of optimize_schedule *)
ROEntry(task_name) ==
    ro_results.schedule[CHOOSE k \in 1..Len(ro_results.schedule) :
                            ro_results.schedule[k].task = task_name]

(* C18: in the result of optimize_schedule every task starts at the        *)
(* greatest end (start + adjusted duration) of its dependencies, at 0 if   *)
(* it has none; so no task starts before a dependency of it has ended.     *)
C18_StartsAfterDependencies ==
    ro_pc = "returned" =>
        \A k \in 1..Len(ro_results.schedule) :
            LET item == ro_results.schedule[k]
                deps == DependenciesOf(item.task)
            IN  IF deps = <<>> THEN item.start = 0
                ELSE item.start = MaxSet({ROEntry(deps[d]).start + ROEntry(deps[d]).duration :
                                             d \in 1..Len(deps)})


(* C19: the next population is chosen from the parents and the offspring   *)
(* together, by rank, and holds population_size candidates at every         *)
(* generation boundary.  A choice by rank out of the union keeps a          *)
(* candidate no parent dominates; with one parent, whose fitness is         *)
(* record.min, the candidate that ends the generation is not dominated by   *)
(* it.                                                                      *)
C19_MergeThenReduce ==
    /\ [](pc = "select" => Len(pop) = population_size)
    /\ [][(pc = "replace" /\ population_size = 1) =>
             ~ParetoDominates(record.min, pop'[1].fitness)]_vars


(* the lower end the data model gives the range of gene i: the greatest    *)
(* start + adjusted duration among the dependencies of task i              *)
LowerAdjusted(individual, i) ==
    IF tasks[i].dependencies = <<>> THEN 0
    ELSE MaxSet({individual[IndexOf(tasks[i].dependencies[k])]
                    + AdjustedDuration(tasks[IndexOf(tasks[i].dependencies[k])].duration,
                                       adjustment_factors[mode]) :
                 k \in 1..Len(tasks[i].dependencies)})

(* the candidate as gene i finds it: the genes before it as the pass left  *)
(* them, the genes after it as they were                                    *)
AtGene(before, after, i) ==
    [j \in 1..Len(before) |-> IF j < i THEN after[j] ELSE before[j]]

(* C20: a gene the mutation has given a new value lies in                   *)
(* [lower, lower + 2 * duration(i)], lower being the greatest               *)
(* candidate[j] + adjusted_duration(j) over the dependencies j of task i,   *)
(* 0 without dependencies, in every mode.                                   *)
C20_MutationRange ==
    [][(pc = "mutate" /\ pc' # "error") =>
          \A i \in 1..NumTasks :
              offspring'[idx].genes[i] # offspring[idx].genes[i] =>
                  LET lo == LowerAdjusted(AtGene(offspring[idx].genes,
                                                 offspring'[idx].genes, i), i)
                  IN  /\ lo <= offspring'[idx].genes[i]
                      /\ offspring'[idx].genes[i] <= lo + 2 * tasks[i].duration]_vars


(* the end day the data model gives task i in a candidate *)
EndDay(genes, i) ==
    genes[i] + Max(1, (tasks[i].duration * adjustment_factors[mode].duration) \div 10)

(* the ledger of a candidate, and a field of it summed over every day and   *)
(* every resource type                                                      *)
LedgerOf(genes) ==
    calculate_daily_resource_usage(create_schedule_dict(genes), adjustment_factors[mode])

LedgerSum(daily, field) ==
    SumFun([c \in (DOMAIN daily) \X resource_types |-> daily[c[1]][field][c[2]]])

(* the triple was not changed by the cost constraint *)
NotPenalised(genes) ==
    \/ max_cost = NoneVal
    \/ mode = "performance"
    \/ LedgerSum(LedgerOf(genes), "cost") <= 10 * max_cost[1]

(* C21: for a candidate with non-negative starts the evaluation returns no  *)
(* negative component, and before any penalty its makespan is the greatest  *)
(* start + max(1, floor(duration x multiplier)) and its cost and carbon are *)
(* the ledger's cost and carbon summed over all days and resource types.    *)
C21_EvaluationTriple ==
    \A i \in Evaluated(pop) :
        (\A t \in 1..NumTasks : pop[i].genes[t] >= 0) =>
            /\ \A k \in 1..3 : pop[i].fitness[k] >= 0
            /\ NotPenalised(pop[i].genes) =>
                  /\ pop[i].fitness[1] = 10 * MaxSet({EndDay(pop[i].genes, t) : t \in 1..NumTasks})
                  /\ pop[i].fitness[2] = LedgerSum(LedgerOf(pop[i].genes), "cost")
                  /\ pop[i].fitness[3] = LedgerSum(LedgerOf(pop[i].genes), "carbon")

(* an evaluated, unpenalised candidate whose last task is not the last to   *)
(* end, with a cost above 0                                                 *)
C21_Witness ==
    \E i \in Evaluated(pop) :
        /\ NotPenalised(pop[i].genes)
        /\ NumTasks >= 2
        /\ EndDay(pop[i].genes, 1) > EndDay(pop[i].genes, NumTasks)
        /\ pop[i].fitness[1] = 10 * EndDay(pop[i].genes, 1)
        /\ pop[i].fitness[2] > 0


(* the base rates the data model gives a resource type name *)
NamedRate(res_type) ==
    LET name == lower(res_type)
        has(word) == Contains(name, word)
    IN  CASE has(<<"c", "r", "a", "n", "e">>) -> <<1000, 50>>
          [] ~has(<<"c", "r", "a", "n", "e">>)
             /\ (has(<<"w", "o", "r", "k", "e", "r">>) \/ has(<<"t", "e", "a", "m">>)
                 \/ has(<<"l", "a", "b", "o", "r">>)) -> <<100, 5>>
          [] OTHER -> <<200, 10>>

(* the quantity of a resource type the tasks active on a day require *)
RequiredOn(genes, day, res_type) ==
    SumFun([t \in {u \in 1..NumTasks :
                      /\ res_type \in DOMAIN tasks[u].resources
                      /\ genes[u] <= day
                      /\ day < EndDay(genes, u)} |-> tasks[t].resources[res_type]])

(* C22: for every day and resource type the ledger's quantity is the sum of *)
(* the quantities the tasks active on that day require, its cost is the     *)
(* quantity x base cost x the mode's cost multiplier and its carbon the     *)
(* quantity x base carbon x the mode's carbon multiplier (both in tenths),  *)
(* the base rates being 1000/50 for a name with "crane", else 100/5 for one *)
(* with "worker", "team" or "labor", else 200/10, whatever the case.        *)
C22_LedgerEntries ==
    pc = "evaluated" =>
        \A day \in 0..(MaxStart + max_duration + 1), rt \in resource_types :
            LET q == RequiredOn(pop[1].genes, day, rt)
            IN  /\ LedgerGet(daily_resources, day, "resources", rt) = q
                /\ LedgerGet(daily_resources, day, "cost", rt)
                      = q * NamedRate(rt)[1] * adjustment_factors[mode].cost
                /\ LedgerGet(daily_resources, day, "carbon", rt)
                      = q * NamedRate(rt)[2] * adjustment_factors[mode].carbon

(* a ledger day on which two tasks share a resource type whose name holds   *)
(* "crane" and "team", outside standard mode                                *)
C22_Witness ==
    /\ pc = "evaluated"
    /\ mode # "standard"
    /\ \E day \in DOMAIN daily_resources :
          /\ ResCraneTeam \in resource_types
          /\ daily_resources[day].resources[ResCraneTeam] = 2
          /\ daily_resources[day].resources[ResDrill] = 3
          /\ daily_resources[day].cost[ResCraneTeam] > 0


(* the days of the project timeline on which the stored ledger holds a      *)
(* quantity above 0 of a resource type                                      *)
ActiveDays(res_type) ==
    Cardinality({day \in 0..(result.total_duration - 1) :
                    LedgerGet(daily_resources, day, "resources", res_type) > 0})

(* C23: in the result of optimize the utilization of every resource type is *)
(* 100 x (days of the timeline with a ledger quantity above 0) / (length of *)
(* the timeline in days), also when the timeline is the single day 0.       *)
C23_UtilizationValue ==
    pc = "done" =>
        \A rt \in DOMAIN result.resource_utilization :
            result.resource_utilization[rt].num * result.total_duration
                = 100 * ActiveDays(rt) * result.resource_utilization[rt].den


(* the fitness values of the archive *)
Archive == {hof[m] : m \in 1..Len(hof)}

(* C24: after the initial population and after every generation the archive *)
(* holds mutually non-dominated candidates only, none of them dominated by  *)
(* a candidate evaluated so far: none by a candidate of the population just *)
(* evaluated, and a member leaves the archive only when a member of the     *)
(* new archive dominates it.                                                *)
C24_ArchiveIsFront ==
    /\ [](/\ \A f, g \in Archive : ~Dominates(f, g)
          /\ \A i \in Evaluated(pop) : \A f \in Archive : ~Dominates(pop[i].fitness, f))
    /\ [][\A f \in Archive :
             \/ \E m \in 1..Len(hof') : hof'[m] = f
             \/ \E m \in 1..Len(hof') : Dominates(hof'[m], f)]_vars

(* after a generation the archive holds a candidate of an earlier           *)
(* population that dominates every candidate of the present one             *)
C24_Witness ==
    /\ pc = "select"
    /\ gen >= 1
    /\ \E f \in Archive : \A i \in 1..Len(pop) : Dominates(f, pop[i].fitness)


(* utils.calculate_carbon_footprint: the carbon values of the schedule      *)
(* entries added up (in tenths)                                             *)
calculate_carbon_footprint(schedule) ==
    SumFun([k \in 1..Len(schedule.schedule) |-> schedule.schedule[k].carbon])

(* C25: in the result of optimize the per-task costs add up to total_cost   *)
(* and the per-task carbon values, the sum calculate_carbon_footprint       *)
(* returns, add up to carbon_footprint, also when tasks that require the    *)
(* same resource type overlap in time.                                      *)
C25_TaskSumsAreTotals ==
    pc = "done" =>
        /\ SumFun([k \in 1..Len(result.schedule) |-> result.schedule[k].cost])
              = result.total_cost
        /\ calculate_carbon_footprint(result) = result.carbon_footprint


(* base.Fitness.dominates with the weights of a mode *)
DominatesIn(m, f, g) ==
    /\ \A k \in 1..3 : f[k] * WeightsOf(m)[k] >= g[k] * WeightsOf(m)[k]
    /\ \E k \in 1..3 : f[k] * WeightsOf(m)[k] > g[k] * WeightsOf(m)[k]

(* the archive two fitness values give in a mode: the ones not dominated *)
FrontIn(m, f, g) == {x \in {f, g} : \A y \in {f, g} : ~DominatesIn(m, y, x)}

====
